---------------------------- MODULE Spec2Model ----------------------------
(***************************************************************************)
(* A model of r_6502: an assembler (asm_parser.rs) that encodes a line-    *)
(* oriented 6502 source into a 64 KB memory image with a cycle budget, and *)
(* an execution engine (asm_runner.rs) that runs the image against the CPU *)
(* registers and flags (cpu.rs, memory.rs, token.rs, util.rs).             *)
(*                                                                         *)
(* Representation.  The 65536-byte array Memory.data is kept as a function *)
(* from the addresses that hold a non-zero byte to that byte; every other  *)
(* address reads 0 (Memory::new zero-fills).  The u32 data_cycle_count is  *)
(* kept as two 16-bit halves [hi, lo], so that its full 32-bit width and   *)
(* its wrap-around are represented.  Text is a sequence of one-character   *)
(* strings.  Rust checks integer overflow in a debug build (panic) and     *)
(* wraps in a release build: the variable overflow_checks is the build.    *)
(***************************************************************************)
EXTENDS Integers, Sequences, FiniteSets, TLC

VARIABLES
  overflow_checks, \* TRUE: debug build (overflow panics); FALSE: release (wraps)
  file,            \* the lines of the source file read by read_asm_file
  line_no,         \* number of lines of the file already consumed
  curr_mem_add,    \* the write cursor (u16)
  asm_panic,       \* "none", or the panic message that aborted the assembly
  memory,          \* Memory: [max_memory, data, data_cycle_count]
  cpu,             \* CPU registers and flags (cpu.memory is the variable memory)
  run_state,       \* "Idle", "Running", "Halted" (loop left), "Panicked"
  run_panic,       \* "none", or the panic message that aborted the run
  current_value,   \* the opcode byte fetched by the last loop iteration, -1 before
  entry            \* pc and data_cycle_count as they were when run_memory was entered

vars == <<overflow_checks, file, line_no, curr_mem_add, asm_panic, memory, cpu,
          run_state, run_panic, current_value, entry>>

-----------------------------------------------------------------------------
(* Machine integers                                                        *)

MAX_MEMORY == 65536

U16_MOD == 65536

U8_MAX == 255

U16_MAX == 65535

\* A u32 as two 16-bit halves; U32(n) is the u32 of a number below 2^31.
U32(n) == [hi |-> n \div U16_MOD, lo |-> n % U16_MOD]

U32_MAX == [hi |-> U16_MAX, lo |-> U16_MAX]

\* c + k as a mathematical carry chain; U32AddOverflows tells whether the
\* u32 addition c + k leaves the 32-bit range (k a small natural).
U32AddOverflows(c, k) == c.hi + ((c.lo + k) \div U16_MOD) > U16_MAX

U32WrappingAdd(c, k) ==
  [hi |-> (c.hi + ((c.lo + k) \div U16_MOD)) % U16_MOD, lo |-> (c.lo + k) % U16_MOD]

U32WrappingDec(c) ==
  IF c.lo > 0 THEN [c EXCEPT !.lo = @ - 1]
  ELSE [hi |-> (c.hi - 1) % U16_MOD, lo |-> U16_MAX]

-----------------------------------------------------------------------------
(* memory.rs                                                               *)

\* data[addr]
Read(data, addr) == IF addr \in DOMAIN data THEN data[addr] ELSE 0

\* data[addr] = byte
Write(data, addr, byte) ==
  IF byte = 0 THEN [k \in (DOMAIN data) \ {addr} |-> data[k]]
  ELSE [k \in (DOMAIN data) \cup {addr} |-> IF k = addr THEN byte ELSE data[k]]

\* A variant of Memory::new that leaves the array as it finds it (here with a
\* byte at the last address).
MemoryNewUnfilled ==
  [max_memory |-> MAX_MEMORY, data |-> (U16_MAX :> 1), data_cycle_count |-> U32(0)]

\* Memory::new followed by Memory::init: every byte 0, no cycles.
MemoryNew == [max_memory |-> MAX_MEMORY, data |-> <<>>, data_cycle_count |-> U32(0)]

-----------------------------------------------------------------------------
(* token.rs: the instruction variants and their opcode bytes (Token as u8) *)

\* A variant of the table in which the absolute variant of LDA has the opcode
\* of the zero-page one.
TokenWithClash ==
  [LDA |-> \H89, LdaZP |-> \HA5, LdaAP |-> \HA5, LDX |-> \HA2, LdxZP |-> \HA6, LdxAP |-> \HAE,
   LDY |-> \HA0, LdyZP |-> \HA4, LdyAP |-> \HAC, ADC |-> \H69, AdcZP |-> \H65, AdcAP |-> \H6D,
   STA |-> \H95, StaAP |-> \H8D, STX |-> \H86, StxAP |-> \H96, STY |-> \H84, StyAP |-> \H94,
   JMP |-> \H4C, JmpID |-> \H6C, JSR |-> \H20, AND |-> \H29, AndZP |-> \H25, AndAP |-> \H2D,
   ASL |-> \H0A, AslZP |-> \H06, AslAP |-> \H0E, BCC |-> \H90, BCS |-> \HB0, BEQ |-> \HF0,
   BIT |-> \H24, BitAP |-> \H2C, BMI |-> \H30, BNE |-> \HD0, BPL |-> \H10, BRK |-> \H00,
   BVC |-> \H50, BVS |-> \H70, CLC |-> \H18, CLD |-> \HD8, CLI |-> \H58, CLV |-> \HB8,
   CMP |-> \HC9, CmpZP |-> \HC5, CmpAP |-> \HCD, CPX |-> \HE0, CpxZP |-> \HE4, CpxAP |-> \HEC,
   CPY |-> \HC0, CpyZP |-> \HC4, CpyAP |-> \HCC, DEC |-> \HC6, DecAP |-> \HCE, DEX |-> \HCA,
   DEY |-> \H88, EOR |-> \H49, EorZP |-> \H45, EorAP |-> \H4D, INC |-> \HE6, IncAP |-> \HEE,
   INX |-> \HE8, INY |-> \HC8, LSR |-> \H4A, LsrZP |-> \H46, LsrAP |-> \H4E, NOP |-> \HEA,
   ORA |-> \H09, OraZP |-> \H05, OraAP |-> \H0D, PHA |-> \H48, PHP |-> \H08, PLA |-> \H68,
   PLP |-> \H28, ROL |-> \H2A, RolZP |-> \H26, RolAP |-> \H2E, ROR |-> \H6A, RorZP |-> \H66,
   RorAP |-> \H6E, RTI |-> \H40, RTS |-> \H60, SBC |-> \HE9, SbcZP |-> \HE5, SbcAP |-> \HED,
   SEC |-> \H38, SED |-> \HF8, SEI |-> \H78, TAX |-> \HAA, TAY |-> \HA8, TSX |-> \HBA,
   TXA |-> \H8A, TXS |-> \H9A, TYA |-> \H98]

Token ==
  [LDA |-> \H89, LdaZP |-> \HA5, LdaAP |-> \HAD, LDX |-> \HA2, LdxZP |-> \HA6, LdxAP |-> \HAE,
   LDY |-> \HA0, LdyZP |-> \HA4, LdyAP |-> \HAC, ADC |-> \H69, AdcZP |-> \H65, AdcAP |-> \H6D,
   STA |-> \H95, StaAP |-> \H8D, STX |-> \H86, StxAP |-> \H96, STY |-> \H84, StyAP |-> \H94,
   JMP |-> \H4C, JmpID |-> \H6C, JSR |-> \H20, AND |-> \H29, AndZP |-> \H25, AndAP |-> \H2D,
   ASL |-> \H0A, AslZP |-> \H06, AslAP |-> \H0E, BCC |-> \H90, BCS |-> \HB0, BEQ |-> \HF0,
   BIT |-> \H24, BitAP |-> \H2C, BMI |-> \H30, BNE |-> \HD0, BPL |-> \H10, BRK |-> \H00,
   BVC |-> \H50, BVS |-> \H70, CLC |-> \H18, CLD |-> \HD8, CLI |-> \H58, CLV |-> \HB8,
   CMP |-> \HC9, CmpZP |-> \HC5, CmpAP |-> \HCD, CPX |-> \HE0, CpxZP |-> \HE4, CpxAP |-> \HEC,
   CPY |-> \HC0, CpyZP |-> \HC4, CpyAP |-> \HCC, DEC |-> \HC6, DecAP |-> \HCE, DEX |-> \HCA,
   DEY |-> \H88, EOR |-> \H49, EorZP |-> \H45, EorAP |-> \H4D, INC |-> \HE6, IncAP |-> \HEE,
   INX |-> \HE8, INY |-> \HC8, LSR |-> \H4A, LsrZP |-> \H46, LsrAP |-> \H4E, NOP |-> \HEA,
   ORA |-> \H09, OraZP |-> \H05, OraAP |-> \H0D, PHA |-> \H48, PHP |-> \H08, PLA |-> \H68,
   PLP |-> \H28, ROL |-> \H2A, RolZP |-> \H26, RolAP |-> \H2E, ROR |-> \H6A, RorZP |-> \H66,
   RorAP |-> \H6E, RTI |-> \H40, RTS |-> \H60, SBC |-> \HE9, SbcZP |-> \HE5, SbcAP |-> \HED,
   SEC |-> \H38, SED |-> \HF8, SEI |-> \H78, TAX |-> \HAA, TAY |-> \HA8, TSX |-> \HBA,
   TXA |-> \H8A, TXS |-> \H9A, TYA |-> \H98]

Tokens == DOMAIN Token

-----------------------------------------------------------------------------
(* util.rs helpers used by the CPU and the engine.  check_7_bit and        *)
(* combine_address are imported from util by cpu.rs and asm_runner.rs but  *)
(* their bodies are not in util.rs: they follow the specification          *)
(* (negative = bit 7 set; address = low byte + 256 * high byte).           *)

check_7_bit(value) == (value \div 128) % 2 = 1

combine_address(l_byte, h_byte) == l_byte + 256 * h_byte

-----------------------------------------------------------------------------
(* cpu.rs                                                                  *)

\* CPU::new: everything zero.
CPUNew ==
  [pc |-> 0, sp |-> 0, x |-> 0, a |-> 0, y |-> 0,
   c |-> 0, z |-> 0, i |-> 0, d |-> 0, b |-> 0, v |-> 0, n |-> 0]

A == 0

X == 1

Y == 2

\* The engine's working state while one loop iteration executes: the CPU, its
\* memory, the build's overflow checking, and the panic that stopped it.
\* Every operation below leaves a panicked state as it is (nothing after a
\* panic runs).
Ctx(c, m, chk) == [cpu |-> c, memory |-> m, checks |-> chk, panic |-> "none"]

\* CPU::check_n_flag: all three arms test self.a.
check_n_flag(s, register) ==
  IF s.panic # "none" THEN s
  ELSE IF register \in {A, X, Y}
       THEN [s EXCEPT !.cpu.n = IF check_7_bit(s.cpu.a) THEN 1 ELSE 0]
       ELSE s

\* CPU::check_z_flag
check_z_flag(s, register) ==
  IF s.panic # "none" THEN s
  ELSE CASE register = A -> [s EXCEPT !.cpu.z = IF s.cpu.a = 0 THEN 1 ELSE 0]
         [] register = X -> [s EXCEPT !.cpu.z = IF s.cpu.x = 0 THEN 1 ELSE 0]
         [] register = Y -> [s EXCEPT !.cpu.z = IF s.cpu.y = 0 THEN 1 ELSE 0]
         [] OTHER -> s

-----------------------------------------------------------------------------
(* asm_runner.rs                                                           *)

\* cycle_a_pc_inc: data_cycle_count -= 1 (u32), then pc += 1 (u16).
cycle_a_pc_inc(s) ==
  IF s.panic # "none" THEN s
  ELSE IF s.memory.data_cycle_count = U32(0) /\ s.checks
       THEN [s EXCEPT !.panic = "attempt to subtract with overflow"]
  ELSE LET s1 == [s EXCEPT !.memory.data_cycle_count = U32WrappingDec(@)]
       IN  IF s1.cpu.pc = U16_MAX /\ s.checks
           THEN [s1 EXCEPT !.panic = "attempt to add with overflow"]
           ELSE [s1 EXCEPT !.cpu.pc = (@ + 1) % U16_MOD]

\* A variant of the register store that also clears the accumulator when it
\* writes X or Y.
SetRegisterClearingA(s, register, byte) ==
  IF s.panic # "none" THEN s
  ELSE CASE register = A -> [s EXCEPT !.cpu.a = byte]
         [] register = X -> [s EXCEPT !.cpu.x = byte, !.cpu.a = 0]
         [] register = Y -> [s EXCEPT !.cpu.y = byte, !.cpu.a = 0]
         [] OTHER -> [s EXCEPT !.panic = "Invalid register code"]

\* cpu.<register> = byte, `_ => panic!("Invalid register code")` otherwise
SetRegister(s, register, byte) ==
  IF s.panic # "none" THEN s
  ELSE CASE register = A -> [s EXCEPT !.cpu.a = byte]
         [] register = X -> [s EXCEPT !.cpu.x = byte]
         [] register = Y -> [s EXCEPT !.cpu.y = byte]
         [] OTHER -> [s EXCEPT !.panic = "Invalid register code"]

\* A variant of load_immediate_value that forgets to consume the operand byte.
run_load_immediate_value_no_inc(register, s) ==
  LET s1 == SetRegister(s, register, Read(s.memory.data, s.cpu.pc))
      s2 == check_n_flag(s1, register)
  IN  check_n_flag(s2, register)

\* asm_runner::load_immediate_value: the register is written, check_n_flag is
\* called twice (check_z_flag never), then the operand is consumed.
run_load_immediate_value(register, s) ==
  LET s1 == SetRegister(s, register, Read(s.memory.data, s.cpu.pc))
      s2 == check_n_flag(s1, register)
      s3 == check_n_flag(s2, register)
  IN  cycle_a_pc_inc(s3)

\* A variant of load_zp_location that takes the byte after the opcode for the
\* value itself.
load_zp_location_direct(register, s) ==
  LET mem_loc == Read(s.memory.data, s.cpu.pc)
  IN  check_n_flag(cycle_a_pc_inc(SetRegister(cycle_a_pc_inc(s), register, mem_loc)),
                   register)

\* load_zp_location
load_zp_location(register, s) ==
  LET mem_loc == Read(s.memory.data, s.cpu.pc)
      s1 == cycle_a_pc_inc(s)
      s2 == SetRegister(s1, register, Read(s1.memory.data, mem_loc))
      s3 == cycle_a_pc_inc(s2)
  IN  check_n_flag(s3, register)

\* A variant of load_ap_location that reads the address bytes high-then-low.
load_ap_location_big_endian(register, s) ==
  LET h_byte == Read(s.memory.data, s.cpu.pc)
      s1 == cycle_a_pc_inc(s)
      l_byte == Read(s1.memory.data, s1.cpu.pc)
      s2 == cycle_a_pc_inc(s1)
      c_bytes == combine_address(l_byte, h_byte)
      s3 == SetRegister(s2, IF register = Y THEN A ELSE register,
                        Read(s2.memory.data, c_bytes))
      s4 == cycle_a_pc_inc(s3)
      s5 == check_n_flag(s4, register)
      s6 == check_z_flag(s5, register)
  IN  cycle_a_pc_inc(s6)

\* load_ap_location: the Y arm writes cpu.a; a fourth cycle_a_pc_inc ends it.
load_ap_location(register, s) ==
  LET l_byte == Read(s.memory.data, s.cpu.pc)
      s1 == cycle_a_pc_inc(s)
      h_byte == Read(s1.memory.data, s1.cpu.pc)
      s2 == cycle_a_pc_inc(s1)
      c_bytes == combine_address(l_byte, h_byte)
      s3 == SetRegister(s2, IF register = Y THEN A ELSE register,
                        Read(s2.memory.data, c_bytes))
      s4 == cycle_a_pc_inc(s3)
      s5 == check_n_flag(s4, register)
      s6 == check_z_flag(s5, register)
  IN  cycle_a_pc_inc(s6)

\* asm_runner::load_memory_location
run_load_memory_location(register, s, is_zp) ==
  IF s.panic # "none" THEN s
  ELSE IF register \in {A, X, Y}
       THEN IF is_zp THEN load_zp_location(register, s)
            ELSE load_ap_location(register, s)
       ELSE [s EXCEPT !.panic = "Invalid register code"]

\* load
load(token, s) ==
  IF s.panic # "none" THEN s
  ELSE CASE token = "LDA" -> run_load_immediate_value(A, s)
         [] token = "LDX" -> run_load_immediate_value(X, s)
         [] token = "LDY" -> run_load_immediate_value(Y, s)
         [] token = "LdaZP" -> run_load_memory_location(A, s, TRUE)
         [] token = "LdaAP" -> run_load_memory_location(A, s, FALSE)
         [] OTHER -> [s EXCEPT !.panic = "Seg fault"]

\* The body of run_memory's loop for the fetched byte: the match on it.
Dispatch(byte, s) ==
  IF s.panic # "none" THEN s
  ELSE CASE byte = \H89 -> load("LDA", s)
         [] byte = \HA2 -> load("LDX", s)
         [] byte = \HA0 -> load("LDY", s)
         [] byte = \HA5 -> load("LdaZP", s)
         [] byte = \HAD -> load("LdaAP", s)
         [] OTHER -> [s EXCEPT !.panic = "Command not found"]

\* One iteration of run_memory's loop: fetch, cycle_a_pc_inc, match.
run_memory_iteration(s) ==
  Dispatch(Read(s.memory.data, s.cpu.pc), cycle_a_pc_inc(s))

\* CPU::execute_memory: enter run_memory.
execute_memory ==
  /\ run_state = "Idle"
  /\ asm_panic = "none"
  /\ line_no = Len(file)
  /\ run_state' = "Running"
  /\ entry' = [pc |-> cpu.pc, data_cycle_count |-> memory.data_cycle_count]
  /\ UNCHANGED <<overflow_checks, file, line_no, curr_mem_add, asm_panic, memory,
                 cpu, run_panic, current_value>>

\* A variant of run_memory that leaves the loop one budget unit early (the
\* loop test `data_cycle_count > 1`).
run_memory_leaving_early ==
  /\ run_state = "Running"
  /\ IF memory.data_cycle_count \in {U32(0), U32(1)}
     THEN /\ run_state' = "Halted"
          /\ UNCHANGED <<memory, cpu, run_panic, current_value>>
     ELSE LET s == run_memory_iteration(Ctx(cpu, memory, overflow_checks))
          IN  /\ cpu' = s.cpu
              /\ memory' = s.memory
              /\ run_panic' = s.panic
              /\ run_state' = IF s.panic = "none" THEN "Running" ELSE "Panicked"
              /\ current_value' = Read(memory.data, cpu.pc)
  /\ UNCHANGED <<overflow_checks, file, line_no, curr_mem_add, asm_panic, entry>>

\* run_memory: the loop test `data_cycle_count > 0`, then one iteration.
run_memory ==
  /\ run_state = "Running"
  /\ IF memory.data_cycle_count = U32(0)
     THEN /\ run_state' = "Halted"
          /\ UNCHANGED <<memory, cpu, run_panic, current_value>>
     ELSE LET s == run_memory_iteration(Ctx(cpu, memory, overflow_checks))
          IN  /\ cpu' = s.cpu
              /\ memory' = s.memory
              /\ run_panic' = s.panic
              /\ run_state' = IF s.panic = "none" THEN "Running" ELSE "Panicked"
              /\ current_value' = Read(memory.data, cpu.pc)
  /\ UNCHANGED <<overflow_checks, file, line_no, curr_mem_add, asm_panic, entry>>

-----------------------------------------------------------------------------
(* Text: a string is a sequence of one-character strings.                  *)

\* char::to_digit(radix) for the radices 10 and 16; -1 when c is no digit.
to_digit(c, radix) ==
  LET upper == <<"0","1","2","3","4","5","6","7","8","9","A","B","C","D","E","F">>
      lower == <<"0","1","2","3","4","5","6","7","8","9","a","b","c","d","e","f">>
      at == {k \in 1 .. radix : upper[k] = c \/ lower[k] = c}
  IN  IF at = {} THEN -1 ELSE (CHOOSE k \in at : TRUE) - 1

\* The digit loop of from_str_radix: -1 on an invalid digit or when the value
\* passes max.
RECURSIVE parse_digits(_, _, _, _)
parse_digits(digits, radix, max, acc) ==
  IF digits = <<>> THEN acc
  ELSE LET d == to_digit(Head(digits), radix)
       IN  IF d = -1 THEN -1
           ELSE IF acc * radix + d > max THEN -1
           ELSE parse_digits(Tail(digits), radix, max, acc * radix + d)

\* <unsigned>::from_str_radix(src, radix): the value, or -1 for Err (empty
\* text, a lone sign, an invalid digit, overflow).  One leading "+" is allowed.
from_str_radix(src, radix, max) ==
  IF src = <<>> THEN -1
  ELSE IF Head(src) = "+"
       THEN IF Tail(src) = <<>> THEN -1 ELSE parse_digits(Tail(src), radix, max, 0)
       ELSE parse_digits(src, radix, max, 0)

\* &value[from..to] (0-based, to exclusive), which panics when to is past the
\* end of value: InRange tells whether it does not.
InRange(value, to) == to <= Len(value)

Slice(value, from, to) == SubSeq(value, from + 1, to)

\* line.split(" "): the pieces between single spaces, empty pieces included.
RECURSIVE split(_)
split(line) ==
  LET spaces == {k \in 1 .. Len(line) : line[k] = " "}
  IN  IF spaces = {} THEN <<line>>
      ELSE LET k == CHOOSE j \in spaces : \A h \in spaces : j <= h
           IN  <<SubSeq(line, 1, k - 1)>> \o split(SubSeq(line, k + 1, Len(line)))

-----------------------------------------------------------------------------
(* util.rs: each returns -1 where the function panics.                     *)

convert_string_to_u8(value) == from_str_radix(value, 10, U8_MAX)

convert_hex_string_to_u8(value) == from_str_radix(value, 16, U8_MAX)

\* is_zero_page panics when value is no u16 in hex: IsHexU16 is its domain.
IsHexU16(value) == from_str_radix(value, 16, U16_MAX) # -1

\* A variant of is_zero_page that also takes 0x100 for a zero-page address.
is_zero_page_inclusive(value) == from_str_radix(value, 16, U16_MAX) <= 256

is_zero_page(value) == from_str_radix(value, 16, U16_MAX) < 256

-----------------------------------------------------------------------------
(* cycle_map::init is imported by asm_parser.rs and asm_runner.rs but its  *)
(* source is not in the repository's files.  It is modelled from the       *)
(* specification: every variant has a cost; an immediate variant costs 2   *)
(* (fetch + operand), a zero-page variant 3, an absolute variant 4.  The   *)
(* specification gives no number for the other variants (only the range    *)
(* 1..7); they are given 2.                                                *)

ImmediateTokens ==
  {"LDA", "LDX", "LDY", "ADC", "AND", "CMP", "CPX", "CPY", "EOR", "ORA", "SBC"}

ZeroPageTokens ==
  {"LdaZP", "LdxZP", "LdyZP", "AdcZP", "STA", "STX", "STY", "AndZP", "AslZP",
   "BIT", "CmpZP", "CpxZP", "CpyZP", "DEC", "EorZP", "INC", "LsrZP", "OraZP",
   "RolZP", "RorZP", "SbcZP"}

AbsoluteTokens ==
  {"LdaAP", "LdxAP", "LdyAP", "AdcAP", "StaAP", "StxAP", "StyAP", "JMP", "JSR",
   "AndAP", "AslAP", "BitAP", "CmpAP", "CpxAP", "CpyAP", "DecAP", "EorAP",
   "IncAP", "LsrAP", "OraAP", "RolAP", "RorAP", "SbcAP"}

token_cycle_table ==
  [t \in Tokens |-> CASE t \in ImmediateTokens -> 2
                      [] t \in ZeroPageTokens -> 3
                      [] t \in AbsoluteTokens -> 4
                      [] OTHER -> 2]

-----------------------------------------------------------------------------
(* asm_parser.rs                                                           *)

\* populate_string_to_token_table
token_table ==
  (<<"L","D","A">> :> "LDA") @@ (<<"L","D","X">> :> "LDX") @@ (<<"L","D","Y">> :> "LDY") @@
  (<<"A","D","C">> :> "ADC") @@ (<<"S","T","A">> :> "STA") @@ (<<"S","T","X">> :> "STX") @@
  (<<"S","T","Y">> :> "STY") @@ (<<"J","M","P">> :> "JMP") @@ (<<"J","S","R">> :> "JSR") @@
  (<<"A","N","D">> :> "AND") @@ (<<"A","S","L">> :> "ASL") @@ (<<"B","C","C">> :> "BCC") @@
  (<<"B","C","S">> :> "BCS") @@ (<<"B","E","Q">> :> "BEQ") @@ (<<"B","I","T">> :> "BIT") @@
  (<<"B","M","I">> :> "BMI") @@ (<<"B","N","E">> :> "BNE") @@ (<<"B","P","L">> :> "BPL") @@
  (<<"B","R","K">> :> "BRK") @@ (<<"B","V","C">> :> "BVC") @@ (<<"B","V","S">> :> "BVS") @@
  (<<"C","L","C">> :> "CLC") @@ (<<"C","L","D">> :> "CLD") @@ (<<"C","L","I">> :> "CLI") @@
  (<<"C","L","V">> :> "CLV") @@ (<<"C","M","P">> :> "CMP") @@ (<<"C","P","X">> :> "CPX") @@
  (<<"C","P","Y">> :> "CPY") @@ (<<"D","E","C">> :> "DEC") @@ (<<"D","E","X">> :> "DEX") @@
  (<<"D","E","Y">> :> "DEY") @@ (<<"E","O","R">> :> "EOR") @@ (<<"I","N","C">> :> "INC") @@
  (<<"I","N","X">> :> "INX") @@ (<<"I","N","Y">> :> "INY") @@ (<<"L","S","R">> :> "LSR") @@
  (<<"N","O","P">> :> "NOP") @@ (<<"O","R","A">> :> "ORA") @@ (<<"P","H","A">> :> "PHA") @@
  (<<"P","H","P">> :> "PHP") @@ (<<"P","L","A">> :> "PLA") @@ (<<"P","L","P">> :> "PLP") @@
  (<<"R","O","L">> :> "ROL") @@ (<<"R","O","R">> :> "ROR") @@ (<<"R","T","I">> :> "RTI") @@
  (<<"R","T","S">> :> "RTS") @@ (<<"S","B","C">> :> "SBC") @@ (<<"S","E","C">> :> "SEC") @@
  (<<"S","E","D">> :> "SED") @@ (<<"S","E","I">> :> "SEI") @@ (<<"T","A","X">> :> "TAX") @@
  (<<"T","A","Y">> :> "TAY") @@ (<<"T","S","X">> :> "TSX") @@ (<<"T","X","A">> :> "TXA") @@
  (<<"T","X","S">> :> "TXS") @@ (<<"T","Y","A">> :> "TYA")

\* The assembler's working state while one line is encoded: the memory, the
\* cursor, the build's overflow checking and the panic that stopped it.
\* Every operation below leaves a panicked state as it is.
Asm(m, cursor, chk) ==
  [memory |-> m, curr_mem_add |-> cursor, checks |-> chk, panic |-> "none"]

Panic(m, message) == IF m.panic # "none" THEN m ELSE [m EXCEPT !.panic = message]

\* match token_cycle_table.get(&token) { Some(num) => mem.data_cycle_count +=
\* *num as u32, None => panic!("Cycle Error") }
AddCycles(m, token) ==
  IF m.panic # "none" THEN m
  ELSE IF token \notin DOMAIN token_cycle_table THEN Panic(m, "Cycle Error")
  ELSE IF U32AddOverflows(m.memory.data_cycle_count, token_cycle_table[token]) /\ m.checks
       THEN Panic(m, "attempt to add with overflow")
  ELSE [m EXCEPT !.memory.data_cycle_count = U32WrappingAdd(@, token_cycle_table[token])]

\* mem.data[*curr_mem_add as usize] = byte, where a byte of -1 is a panic of
\* the expression that computes it.
Emit(m, byte, message) ==
  IF m.panic # "none" THEN m
  ELSE IF byte = -1 THEN Panic(m, message)
  ELSE [m EXCEPT !.memory.data = Write(@, m.curr_mem_add, byte)]

\* *curr_mem_add += 1
Advance(m) ==
  IF m.panic # "none" THEN m
  ELSE IF m.curr_mem_add = U16_MAX /\ m.checks
       THEN Panic(m, "attempt to add with overflow")
  ELSE [m EXCEPT !.curr_mem_add = (@ + 1) % U16_MOD]

\* A variant of is_hex that takes no operand for hexadecimal.
is_hex_never(value) == value # <<>> /\ Head(value) = "$" /\ FALSE

\* is_hex; the empty string panics (reported by IsHexPanics)
is_hex(value) == value # <<>> /\ Head(value) = "$"

\* A variant of load_relative_value that leaves the cursor where it was.
load_relative_value_in_place(token, m) ==
  Emit(AddCycles(m, token), Token[token], "")

\* load_relative_value
load_relative_value(token, m) ==
  Advance(Emit(AddCycles(m, token), Token[token], ""))

\* A variant of load_immediate_value that stores the operand over the opcode
\* (the cursor is not advanced between the two bytes).
load_immediate_value_same_cell(token, value, m) ==
  LET m1 == AddCycles(m, token)
  IN  IF value = <<>> THEN Panic(m1, "Syntax error for hex")
      ELSE LET m2 == Emit(m1, Token[token], "")
               byte == IF is_hex(value) THEN convert_hex_string_to_u8(Tail(value))
                       ELSE convert_string_to_u8(value)
           IN  Advance(Advance(Emit(m2, byte, "Failed to parse value")))

\* asm_parser::load_immediate_value
load_immediate_value(token, value, m) ==
  LET m1 == AddCycles(m, token)
  IN  IF value = <<>> THEN Panic(m1, "Syntax error for hex")
      ELSE LET m2 == Advance(Emit(m1, Token[token], ""))
               byte == IF is_hex(value) THEN convert_hex_string_to_u8(Tail(value))
                       ELSE convert_string_to_u8(value)
           IN  Advance(Emit(m2, byte, "Failed to parse value"))

\* load_zero_page
load_zero_page(token, value, m) ==
  LET m1 == Advance(Emit(AddCycles(m, token), Token[token], ""))
  IN  Advance(Emit(m1, convert_hex_string_to_u8(value), "Failed to parse hex value"))

\* A variant of load_mem_page that stores the high byte first.
load_mem_page_big_endian(token, value, m) ==
  LET m1 == Advance(Emit(AddCycles(m, token), Token[token], ""))
      h_byte == IF InRange(value, 2) THEN convert_hex_string_to_u8(Slice(value, 0, 2))
                ELSE -1
      l_byte == IF InRange(value, 4) THEN convert_hex_string_to_u8(Slice(value, 2, 4))
                ELSE -1
      m2 == IF h_byte = -1 \/ l_byte = -1
            THEN Panic(m1, "Failed to parse hex value or byte index out of range")
            ELSE m1
  IN  Advance(Emit(Advance(Emit(m2, h_byte, "")), l_byte, ""))

\* load_mem_page: value[0..2] is the high byte, value[2..4] the low byte; both
\* are computed before either is stored, the low byte is stored first.
load_mem_page(token, value, m) ==
  LET m1 == Advance(Emit(AddCycles(m, token), Token[token], ""))
      h_byte == IF InRange(value, 2) THEN convert_hex_string_to_u8(Slice(value, 0, 2))
                ELSE -1
      l_byte == IF InRange(value, 4) THEN convert_hex_string_to_u8(Slice(value, 2, 4))
                ELSE -1
      m2 == IF h_byte = -1 \/ l_byte = -1
            THEN Panic(m1, "Failed to parse hex value or byte index out of range")
            ELSE m1
  IN  Advance(Emit(Advance(Emit(m2, l_byte, "")), h_byte, ""))

\* The zero-page and absolute variants load_memory_location passes on for each
\* mnemonic token; JMP and JSR go to load_mem_page whatever the value.
ZeroPageVariant ==
  [LDA |-> "LdaZP", LDX |-> "LdxZP", LDY |-> "LdyZP", ADC |-> "AdcZP",
   STA |-> "STA", STX |-> "STX", STY |-> "STY", AND |-> "AndZP", ASL |-> "AslZP",
   BIT |-> "BIT", CMP |-> "CmpZP", CPX |-> "CpxZP", CPY |-> "CpyZP",
   DEC |-> "DEC", EOR |-> "EorZP", INC |-> "INC", LSR |-> "LsrZP",
   ORA |-> "OraZP", ROL |-> "RolZP", ROR |-> "RorZP", SBC |-> "SbcZP"]

AbsoluteVariant ==
  [LDA |-> "LdaAP", LDX |-> "LdxAP", LDY |-> "LdyAP", ADC |-> "AdcAP",
   STA |-> "StaAP", STX |-> "StxAP", STY |-> "StyAP", AND |-> "AndAP",
   ASL |-> "AslAP", BIT |-> "BitAP", CMP |-> "CmpAP", CPX |-> "CpxAP",
   CPY |-> "CpyAP", DEC |-> "DecAP", EOR |-> "EorAP", INC |-> "IncAP",
   LSR |-> "LsrAP", ORA |-> "OraAP", ROL |-> "RolAP", ROR |-> "RorAP",
   SBC |-> "SbcAP", JMP |-> "JMP", JSR |-> "JSR"]

\* A variant of load_memory_location that chooses the form by the number of
\* digits written (two digits: zero page) and not by the value.
load_memory_location_by_length(token, value, m) ==
  IF token \in {"JMP", "JSR"} THEN load_mem_page(AbsoluteVariant[token], value, m)
  ELSE IF token \in DOMAIN ZeroPageVariant
       THEN IF ~IsHexU16(value) THEN Panic(m, "Failed to parse hex value")
            ELSE IF Len(value) <= 2
                 THEN load_zero_page(ZeroPageVariant[token], value, m)
                 ELSE load_mem_page(AbsoluteVariant[token], value, m)
  ELSE Panic(m, "NO FOUND TOKEN FOR ZERO PAGE LOADING")

\* asm_parser::load_memory_location
load_memory_location(token, value, m) ==
  IF token \in {"JMP", "JSR"} THEN load_mem_page(AbsoluteVariant[token], value, m)
  ELSE IF token \in DOMAIN ZeroPageVariant
       THEN IF ~IsHexU16(value) THEN Panic(m, "Failed to parse hex value")
            ELSE IF is_zero_page(value)
                 THEN load_zero_page(ZeroPageVariant[token], value, m)
                 ELSE load_mem_page(AbsoluteVariant[token], value, m)
  ELSE Panic(m, "NO FOUND TOKEN FOR ZERO PAGE LOADING")

\* load_mem_location_command
load_mem_location_command(token, value, m) ==
  IF token \in {"LDA", "LDX", "LDY", "ADC", "STA", "STX", "STY", "JMP", "JSR",
                "AND", "ASL", "BIT", "CMP", "CPX", "CPY", "DEC", "EOR", "INC",
                "LSR", "ORA", "ROL", "ROR", "SBC"}
  THEN load_memory_location(token, value, m)
  ELSE Panic(m, "NO FOUND TOKEN FOR MEM LOCATION COMMAND")

\* load_immediate_command
load_immediate_command(token, value, m) ==
  IF token \in {"LDA", "LDX", "LDY", "ADC", "AND", "CMP", "CPX", "CPY", "EOR",
                "ORA", "ROL", "ROR", "SBC"}
  THEN load_immediate_value(token, value, m)
  ELSE Panic(m, "NO FOUND TOKEN FOR IMMEDIATE COMMAND")

\* A variant of handle_two_character_line that passes over a line whose
\* mnemonic is not in the table.
handle_two_character_line_lenient(tokens, m) ==
  LET token == tokens[1]
      command == tokens[2]
  IN  IF token \notin DOMAIN token_table THEN m
      ELSE IF command = <<>> THEN Panic(m, "Error")
      ELSE LET found_token == token_table[token]
               special_character == Head(command)
               value == Tail(command)
           IN  CASE special_character = "#" -> load_immediate_command(found_token, value, m)
                 [] special_character = "$" -> load_mem_location_command(found_token, value, m)
                 [] OTHER -> m

\* handle_two_character_line
handle_two_character_line(tokens, m) ==
  LET token == tokens[1]
      command == tokens[2]
  IN  IF token \notin DOMAIN token_table THEN Panic(m, "Syntax error")
      ELSE IF command = <<>> THEN Panic(m, "Error")
      ELSE LET found_token == token_table[token]
               special_character == Head(command)
               value == Tail(command)
           IN  CASE special_character = "#" -> load_immediate_command(found_token, value, m)
                 [] special_character = "$" -> load_mem_location_command(found_token, value, m)
                 [] OTHER -> m

\* A variant of handle_one_character_line that emits the opcode of every
\* mnemonic of the table.
handle_one_character_line_any(token, m) ==
  IF token \notin DOMAIN token_table THEN Panic(m, "Syntax error")
  ELSE load_relative_value(token_table[token], m)

\* handle_one_character_line
handle_one_character_line(token, m) ==
  IF token \notin DOMAIN token_table THEN Panic(m, "Syntax error")
  ELSE LET found_token == token_table[token]
       IN  IF found_token \in
                {"ASL", "BCC", "BCS", "BEQ", "BMI", "BNE", "BPL", "BRK", "BVC",
                 "BVS", "CLC", "CLD", "CLI", "CLV", "DEX", "DEY", "INX", "INY",
                 "LSR", "NOP", "PHA", "PLA", "PLP", "ROL", "ROR", "RTI", "RTS",
                 "SEC", "SED", "SEI", "TAX", "TAY", "TSX", "TXA", "TXS", "TYA"}
           THEN load_relative_value(found_token, m)
           ELSE Panic(m, "NO TOKEN FOUND FOR RELATIVE VALUE")

\* parse_line
parse_line(line, m) ==
  LET tokens == split(line)
      amount_of_characters == Len(tokens)
  IN  IF amount_of_characters = 1 THEN handle_one_character_line(tokens[1], m)
      ELSE IF amount_of_characters = 2 THEN handle_two_character_line(tokens, m)
      ELSE m

\* A variant of read_asm_file whose arithmetic is checked or not from one line
\* to the next, whatever the build: its result is not a function of the lines
\* and the starting cursor.
read_asm_file_unsettled ==
  /\ run_state = "Idle"
  /\ asm_panic = "none"
  /\ line_no < Len(file)
  /\ \E chk \in BOOLEAN :
       LET line == file[line_no + 1]
           m == IF line = <<>> THEN Asm(memory, curr_mem_add, chk)
                ELSE parse_line(line, Asm(memory, curr_mem_add, chk))
       IN  /\ memory' = m.memory
           /\ curr_mem_add' = m.curr_mem_add
           /\ asm_panic' = m.panic
  /\ line_no' = line_no + 1
  /\ UNCHANGED <<overflow_checks, file, cpu, run_state, run_panic, current_value, entry>>

\* A variant of read_asm_file that also leaves the program counter at the
\* cursor the pass reached.
read_asm_file_setting_pc ==
  /\ run_state = "Idle"
  /\ asm_panic = "none"
  /\ line_no < Len(file)
  /\ LET line == file[line_no + 1]
         m == IF line = <<>> THEN Asm(memory, curr_mem_add, overflow_checks)
              ELSE parse_line(line, Asm(memory, curr_mem_add, overflow_checks))
     IN  /\ memory' = m.memory
         /\ curr_mem_add' = m.curr_mem_add
         /\ asm_panic' = m.panic
         /\ cpu' = [cpu EXCEPT !.pc = m.curr_mem_add]
  /\ line_no' = line_no + 1
  /\ UNCHANGED <<overflow_checks, file, run_state, run_panic, current_value, entry>>

\* One pass of read_asm_file's loop over the lines: an empty line is skipped,
\* any other is parsed; a panic ends the process.
read_asm_file ==
  /\ run_state = "Idle"
  /\ asm_panic = "none"
  /\ line_no < Len(file)
  /\ LET line == file[line_no + 1]
         m == IF line = <<>> THEN Asm(memory, curr_mem_add, overflow_checks)
              ELSE parse_line(line, Asm(memory, curr_mem_add, overflow_checks))
     IN  /\ memory' = m.memory
         /\ curr_mem_add' = m.curr_mem_add
         /\ asm_panic' = m.panic
  /\ line_no' = line_no + 1
  /\ UNCHANGED <<overflow_checks, file, cpu, run_state, run_panic, current_value, entry>>

-----------------------------------------------------------------------------
(* The engine run on a prepared image: the CPU is created, the image and   *)
(* the cycle budget are stored into cpu.memory, and execute_memory is      *)
(* called.                                                                 *)

MaxBudget == 6

\* The image holding the bytes of prog from address 0 on, and the bytes of
\* cells (a function from addresses to bytes) elsewhere.
ImageOf(prog, cells) ==
  LET byte(k) == IF k \in DOMAIN cells THEN cells[k] ELSE prog[k + 1]
  IN  [k \in {j \in (0 .. Len(prog) - 1) \cup DOMAIN cells : byte(j) # 0} |-> byte(k)]

ImmediateOpcodes == {\H89, \HA2, \HA0}

OperandBytes == {\H00, \H80}

ZeroPageAddresses == {\H10, \H01}

AbsoluteAddresses == {<<\H34, \H12>>, <<\H10, \H00>>}

PresetAddresses == {\H10, \H1234}

PresetBytes == {\H00, \H80}

\* One encoded instruction: the five the engine decodes, LDX zero-page (which
\* the assembler emits and the engine does not decode) and BRK.
Instructions ==
  {<<op, b>> : op \in ImmediateOpcodes, b \in OperandBytes}
    \cup {<<\HA5, z>> : z \in ZeroPageAddresses}
    \cup {<<\HAD, w[1], w[2]>> : w \in AbsoluteAddresses}
    \cup {<<\HA6, \H10>>, <<\H00>>}

NoCells == [k \in {} |-> 0]

Images ==
  {ImageOf(<<\H89, b>>, NoCells) : b \in 0 .. U8_MAX}
    \cup {ImageOf(p, cells) : p \in Instructions \cup {i \o j : i, j \in Instructions},
                             cells \in [PresetAddresses -> PresetBytes]}

InitRun ==
  /\ overflow_checks \in BOOLEAN
  /\ file = <<>>
  /\ line_no = 0
  /\ curr_mem_add = 0
  /\ asm_panic = "none"
  /\ \E image \in Images, budget \in 0 .. MaxBudget :
       memory = [MemoryNew EXCEPT !.data = image, !.data_cycle_count = U32(budget)]
  /\ cpu = CPUNew
  /\ run_state = "Idle"
  /\ run_panic = "none"
  /\ current_value = -1
  /\ entry = [pc |-> 0, data_cycle_count |-> U32(0)]

NextRun == execute_memory \/ run_memory

SpecRun == InitRun /\ [][NextRun]_vars

-----------------------------------------------------------------------------
(* The program: a CPU is created, read_asm_file assembles the source file  *)
(* into cpu.memory from a starting address, and execute_memory runs it.    *)

MaxLines == 2

UnknownMnemonics == {<<"F","O","O">>, <<"l","d","a">>}

BasicOperands ==
  {<<"#","1","0">>, <<"$","1","2">>, <<"$","1","2","3","4">>,
   <<"$","0","0","1","2">>, <<"#","$","0","A">>}

ExtraOperands ==
  {<<"#","0">>, <<"#","2","5","5">>, <<"#","2","5","6">>, <<"#","0","1","0">>,
   <<"#","$","a","b">>, <<"#","$","F","F">>, <<"#","$","1","F","F">>, <<"#">>,
   <<"#","$">>, <<"#","1","A">>, <<"$","0","0">>, <<"$","F","F">>,
   <<"$","0","1","0","0">>, <<"$","F","F","F","F">>, <<"$","1","0","0">>,
   <<"$","1","2","3","4","5">>, <<"$">>, <<"$","G","1">>, <<"$","a","b">>,
   <<"1","0">>, <<"%","1">>}

ProbedMnemonics ==
  {<<"L","D","A">>, <<"L","D","X">>, <<"S","T","A">>, <<"J","M","P">>,
   <<"R","O","L">>, <<"N","O","P">>, <<"F","O","O">>}

SpecialLines ==
  {<<>>, <<"L","D","A"," ","#","1","0"," ","x">>,
   <<"L","D","A"," ">>, <<"L","D","A"," "," ","#","1","0">>, <<"F","O","O"," ">>}

PrefixLines ==
  {<<"N","O","P">>, <<"L","D","A"," ","#","1","0">>, <<"L","D","A"," ","$","1","2","3","4">>,
   <<"L","D","A"," ","1","0">>, <<"F","O","O">>}

\* The lines a file ends with: every mnemonic, and two unknown ones, alone and
\* with each basic operand; the probed mnemonics with every other operand; and
\* the empty line and lines of other shapes.
Lines ==
  LET mnemonics == DOMAIN token_table \cup UnknownMnemonics
  IN  mnemonics
        \cup {mn \o <<" ">> \o op : mn \in mnemonics, op \in BasicOperands}
        \cup {mn \o <<" ">> \o op : mn \in ProbedMnemonics, op \in ExtraOperands}
        \cup SpecialLines

\* A file: at most MaxLines lines, all but the last from PrefixLines.
Files ==
  {<<>>} \cup
  {pre \o <<line>> : pre \in UNION {[1 .. n -> PrefixLines] : n \in 0 .. MaxLines - 1},
                     line \in Lines}

\* The starting addresses passed to read_asm_file.
StartAddresses == {0, \HFFFD, \HFFFF}

Init ==
  /\ overflow_checks \in BOOLEAN
  /\ file \in Files
  /\ line_no = 0
  /\ curr_mem_add \in StartAddresses
  /\ asm_panic = "none"
  /\ memory = MemoryNew
  /\ cpu = CPUNew
  /\ run_state = "Idle"
  /\ run_panic = "none"
  /\ current_value = -1
  /\ entry = [pc |-> 0, data_cycle_count |-> U32(0)]

Next == read_asm_file \/ execute_memory \/ run_memory

Spec == Init /\ [][Next]_vars

-----------------------------------------------------------------------------
(* Properties of the execution engine                                      *)

\* The next run_memory step executes one loop iteration (the loop test passes).
Iteration == run_state = "Running" /\ memory.data_cycle_count # U32(0)

\* The byte that iteration fetches.
Fetched == Read(memory.data, cpu.pc)

ImmediateLoads == {\H89, \HA2, \HA0}

ZeroPageLoads == {\HA5}

AbsoluteLoads == {\HAD}

LoadOpcodes == ImmediateLoads \cup ZeroPageLoads \cup AbsoluteLoads

\* The value of the register an opcode loads, in CPU state c.
Destination(opcode, c) ==
  CASE opcode = \HA2 -> c.x
    [] opcode = \HA0 -> c.y
    [] OTHER -> c.a

U32AtLeast(c, k) == c.hi > 0 \/ c.lo >= k

\* C1: for every byte v, the run on the image [0x89, v] from pc = 0 with a
\* budget of 2 passes only through the states (pc 0, budget 2) and
\* (pc 2, budget 0, a = v), never panics, and is Halted with a = v, pc = 2 and
\* budget 0 (zero flag 0 and negative flag 0 when v = 0x0A).
C1_ImmediateLoadRun ==
  LET v == Read(memory.data, 1)
  IN
    ( /\ run_state # "Idle"
      /\ memory.data = ImageOf(<<\H89, v>>, NoCells)
      /\ entry = [pc |-> 0, data_cycle_count |-> U32(2)] )
    => /\ run_state \in {"Running", "Halted"}
       /\ \/ run_state = "Running" /\ cpu.pc = 0 /\ memory.data_cycle_count = U32(2)
          \/ /\ cpu.a = v
             /\ cpu.pc = 2
             /\ memory.data_cycle_count = U32(0)
             /\ (v = \H0A => cpu.z = 0 /\ cpu.n = 0)

C1_Witness ==
  /\ run_state = "Halted"
  /\ memory.data = ImageOf(<<\H89, \H0A>>, NoCells)
  /\ entry = [pc |-> 0, data_cycle_count |-> U32(2)]
  /\ cpu.a = \H0A
  /\ cpu.pc = 2

\* C2: after every load the engine executes, the zero flag is 1 exactly when
\* the byte written to the destination register is 0.
C2_ZeroFlagAfterLoad ==
  [][ (Iteration /\ Fetched \in LoadOpcodes /\ run_panic' = "none")
        => cpu'.z = (IF Destination(Fetched, cpu') = 0 THEN 1 ELSE 0) ]_vars

\* C3: after every load the engine executes, the negative flag is bit 7 of the
\* byte written to the destination register.
C3_NegativeFlagAfterLoad ==
  [][ (Iteration /\ Fetched \in LoadOpcodes /\ run_panic' = "none")
        => cpu'.n = (IF check_7_bit(Destination(Fetched, cpu')) THEN 1 ELSE 0) ]_vars

\* C4: an iteration that fetches 0xAD with operand bytes lo, hi and at least
\* the four budget units of an absolute load (or in a build that does not check
\* overflow) leaves the byte stored at lo + 256 * hi in the accumulator, the
\* zero flag 1 exactly when that byte is 0 and the negative flag its bit 7;
\* with operands 0x34, 0x12 and memory[0x1234] = 0: a = 0, z = 1, n = 0.
C4_AbsoluteLoad ==
  [][ (/\ Iteration
       /\ Fetched = \HAD
       /\ cpu.pc + 2 <= U16_MAX
       /\ U32AtLeast(memory.data_cycle_count, 4) \/ ~overflow_checks)
        => LET lo == Read(memory.data, cpu.pc + 1)
               hi == Read(memory.data, cpu.pc + 2)
               byte == Read(memory.data, lo + 256 * hi)
           IN  /\ cpu'.a = byte
               /\ cpu'.z = (IF byte = 0 THEN 1 ELSE 0)
               /\ cpu'.n = (IF byte >= 128 THEN 1 ELSE 0)
               /\ (lo = \H34 /\ hi = \H12 /\ Read(memory.data, \H1234) = 0
                     => cpu'.a = 0 /\ cpu'.z = 1 /\ cpu'.n = 0) ]_vars

C4_Witness ==
  /\ current_value = \HAD
  /\ Read(memory.data, 1) = \H34
  /\ Read(memory.data, 2) = \H12
  /\ Read(memory.data, \H1234) = 0
  /\ Read(memory.data, \H3412) = 0
  /\ cpu.a = 0
  /\ cpu.z = 1
  /\ cpu.n = 0

\* The cycles an instruction costs by its addressing mode.
ModeCost(opcode) ==
  CASE opcode \in ImmediateLoads -> 2
    [] opcode \in ZeroPageLoads -> 3
    [] opcode \in AbsoluteLoads -> 4

\* C5: executing one instruction consumes 2 budget units for an immediate
\* load, 3 for a zero-page load and 4 for an absolute load.
C5_CyclesPerInstruction ==
  [][ (Iteration /\ Fetched \in LoadOpcodes /\ run_panic' = "none")
        => memory.data_cycle_count
             = U32WrappingAdd(memory'.data_cycle_count, ModeCost(Fetched)) ]_vars

-----------------------------------------------------------------------------
(* Properties of the assembler                                             *)

\* The next read_asm_file step handles the line CurrentLine.
AsmStep == run_state = "Idle" /\ asm_panic = "none" /\ line_no < Len(file)

CurrentLine == file[line_no + 1]

\* The value of a numeral in a base, read digit by digit (-1 for no numeral).
DigitValue(c) ==
  CASE c = "0" -> 0 [] c = "1" -> 1 [] c = "2" -> 2 [] c = "3" -> 3
    [] c = "4" -> 4 [] c = "5" -> 5 [] c = "6" -> 6 [] c = "7" -> 7
    [] c = "8" -> 8 [] c = "9" -> 9 [] c \in {"A", "a"} -> 10
    [] c \in {"B", "b"} -> 11 [] c \in {"C", "c"} -> 12 [] c \in {"D", "d"} -> 13
    [] c \in {"E", "e"} -> 14 [] c \in {"F", "f"} -> 15 [] OTHER -> 99

IsNumeral(text, base) ==
  text # <<>> /\ \A k \in 1 .. Len(text) : DigitValue(text[k]) < base

RECURSIVE NumeralValue(_, _)
NumeralValue(text, base) ==
  IF text = <<>> THEN 0
  ELSE NumeralValue(SubSeq(text, 1, Len(text) - 1), base) * base
         + DigitValue(text[Len(text)])

\* A line "MMM <mark><text>": a table mnemonic, one space, the mark, the text.
IsOperandLine(line, mark) ==
  /\ Len(line) >= 5
  /\ SubSeq(line, 1, 3) \in DOMAIN token_table
  /\ line[4] = " "
  /\ line[5] = mark
  /\ \A k \in 6 .. Len(line) : line[k] # " "

MnemonicOf(line) == token_table[SubSeq(line, 1, 3)]

OperandText(line) == SubSeq(line, 6, Len(line))

\* The opcode bytes of token.rs by mnemonic: the immediate variants (the base
\* token of a mnemonic that has one), the zero-page variants (XxxZP, or the
\* base token of the mnemonics without an immediate variant) and the absolute
\* variants (XxxAP; JMP and JSR have no other).
ImmediateOpcode ==
  [LDA |-> \H89, LDX |-> \HA2, LDY |-> \HA0, ADC |-> \H69, AND |-> \H29, CMP |-> \HC9,
   CPX |-> \HE0, CPY |-> \HC0, EOR |-> \H49, ORA |-> \H09, SBC |-> \HE9]

ZeroPageOpcode ==
  [LDA |-> \HA5, LDX |-> \HA6, LDY |-> \HA4, ADC |-> \H65, STA |-> \H95, STX |-> \H86,
   STY |-> \H84, AND |-> \H25, ASL |-> \H06, BIT |-> \H24, CMP |-> \HC5, CPX |-> \HE4,
   CPY |-> \HC4, DEC |-> \HC6, EOR |-> \H45, INC |-> \HE6, LSR |-> \H46, ORA |-> \H05,
   ROL |-> \H26, ROR |-> \H66, SBC |-> \HE5]

AbsoluteOpcode ==
  [LDA |-> \HAD, LDX |-> \HAE, LDY |-> \HAC, ADC |-> \H6D, STA |-> \H8D, STX |-> \H96,
   STY |-> \H94, JMP |-> \H4C, JSR |-> \H20, AND |-> \H2D, ASL |-> \H0E, BIT |-> \H2C,
   CMP |-> \HCD, CPX |-> \HEC, CPY |-> \HCC, DEC |-> \HCE, EOR |-> \H4D, INC |-> \HEE,
   LSR |-> \H4E, ORA |-> \H0D, ROL |-> \H2E, ROR |-> \H6E, SBC |-> \HED]

\* The variant an opcode byte encodes.
VariantOf(opcode) == CHOOSE t \in Tokens : Token[t] = opcode

\* C6: every instruction the engine executes drains as many budget units as
\* the encoder added for its variant when it assembled it (so that an assembled
\* program's budget is exactly used up by its last instruction).
C6_DrainEqualsEncodedCost ==
  [][ (Iteration /\ Fetched \in LoadOpcodes /\ run_panic' = "none")
        => memory.data_cycle_count
             = U32WrappingAdd(memory'.data_cycle_count,
                              token_cycle_table[VariantOf(Fetched)]) ]_vars

\* The line is "M #d": M has an immediate variant, d is a decimal numeral of
\* value 0..255.
IsImmediateDecimalLine(line) ==
  /\ IsOperandLine(line, "#")
  /\ MnemonicOf(line) \in DOMAIN ImmediateOpcode
  /\ IsNumeral(OperandText(line), 10)
  /\ NumeralValue(OperandText(line), 10) <= U8_MAX

\* C7: assembling "M #d" (M with an immediate variant, d a decimal numeral in
\* 0..255) at a cursor with room for the instruction (cursor + 2 <= 0xFFFF)
\* does not fail, writes M's immediate opcode at the cursor and the byte d at
\* cursor + 1, advances the cursor by 2 and adds the variant's cost to the
\* cycle budget.
C7_ImmediateDecimal ==
  [][ (AsmStep /\ IsImmediateDecimalLine(CurrentLine) /\ curr_mem_add + 2 <= U16_MAX)
        => /\ asm_panic' = "none"
           /\ Read(memory'.data, curr_mem_add) = ImmediateOpcode[MnemonicOf(CurrentLine)]
           /\ Read(memory'.data, curr_mem_add + 1) = NumeralValue(OperandText(CurrentLine), 10)
           /\ curr_mem_add' = curr_mem_add + 2
           /\ memory'.data_cycle_count
                = U32WrappingAdd(memory.data_cycle_count,
                                 token_cycle_table[MnemonicOf(CurrentLine)]) ]_vars

\* "LDA #10" assembled into a fresh image at 0: [0x89, 0x0A], cursor 2.
C7_Witness ==
  /\ file = << <<"L","D","A"," ","#","1","0">> >>
  /\ line_no = 1
  /\ asm_panic = "none"
  /\ memory.data = ImageOf(<<\H89, \H0A>>, NoCells)
  /\ curr_mem_add = 2
  /\ memory.data_cycle_count = U32(token_cycle_table["LDA"])

\* The line is "M $hhll": M has an absolute variant, hhll is four hex digits of
\* value at least 0x100.
IsAbsoluteLine(line) ==
  /\ IsOperandLine(line, "$")
  /\ MnemonicOf(line) \in DOMAIN AbsoluteOpcode
  /\ Len(OperandText(line)) = 4
  /\ IsNumeral(OperandText(line), 16)
  /\ NumeralValue(OperandText(line), 16) >= 256

\* C8: assembling "M $hhll" with a value of at least 0x100, at a cursor with
\* room for the instruction (cursor + 3 <= 0xFFFF), does not fail, writes M's
\* absolute opcode at the cursor, the low byte ll at cursor + 1 and the high
\* byte hh at cursor + 2, and advances the cursor by 3.
C8_AbsoluteLittleEndian ==
  [][ (AsmStep /\ IsAbsoluteLine(CurrentLine) /\ curr_mem_add + 3 <= U16_MAX)
        => /\ asm_panic' = "none"
           /\ Read(memory'.data, curr_mem_add) = AbsoluteOpcode[MnemonicOf(CurrentLine)]
           /\ Read(memory'.data, curr_mem_add + 1)
                = NumeralValue(OperandText(CurrentLine), 16) % 256
           /\ Read(memory'.data, curr_mem_add + 2)
                = NumeralValue(OperandText(CurrentLine), 16) \div 256
           /\ curr_mem_add' = curr_mem_add + 3 ]_vars

\* "LDA $1234" assembled into a fresh image at 0: [0xAD, 0x34, 0x12], cursor 3.
C8_Witness ==
  /\ file = << <<"L","D","A"," ","$","1","2","3","4">> >>
  /\ line_no = 1
  /\ asm_panic = "none"
  /\ memory.data = ImageOf(<<\HAD, \H34, \H12>>, NoCells)
  /\ curr_mem_add = 3

\* The line is "M $<digits>": M takes a memory operand, written with two or
\* with four hex digits.
IsMemoryLine(line) ==
  /\ IsOperandLine(line, "$")
  /\ MnemonicOf(line) \in DOMAIN AbsoluteOpcode
  /\ Len(OperandText(line)) \in {2, 4}
  /\ IsNumeral(OperandText(line), 16)

MemoryValue(line) == NumeralValue(OperandText(line), 16)

\* The step wrote the zero-page form of the line at the cursor: the mnemonic's
\* zero-page opcode and one operand byte, two bytes in all.
EncodedZeroPage ==
  /\ asm_panic' = "none"
  /\ MnemonicOf(CurrentLine) \in DOMAIN ZeroPageOpcode
  /\ Read(memory'.data, curr_mem_add) = ZeroPageOpcode[MnemonicOf(CurrentLine)]
  /\ Read(memory'.data, curr_mem_add + 1) = MemoryValue(CurrentLine) % 256
  /\ curr_mem_add' = curr_mem_add + 2

\* The step wrote the absolute form of the line at the cursor: the mnemonic's
\* absolute opcode and the two address bytes, low byte first, three bytes in all.
EncodedAbsolute ==
  /\ asm_panic' = "none"
  /\ Read(memory'.data, curr_mem_add) = AbsoluteOpcode[MnemonicOf(CurrentLine)]
  /\ Read(memory'.data, curr_mem_add + 1) = MemoryValue(CurrentLine) % 256
  /\ Read(memory'.data, curr_mem_add + 2) = MemoryValue(CurrentLine) \div 256
  /\ curr_mem_add' = curr_mem_add + 3

\* A memory line is assembled at a cursor with room for three bytes.
MemoryStep == AsmStep /\ IsMemoryLine(CurrentLine) /\ curr_mem_add + 3 <= U16_MAX

C10_AsStated ==
  [][ (MemoryStep /\ asm_panic' = "none")
        => IF Len(OperandText(CurrentLine)) = 4
           THEN EncodedAbsolute
           ELSE curr_mem_add' = curr_mem_add + 2 ]_vars

\* C10, amended: for a mnemonic with a zero-page variant an operand written
\* with two hex digits is always encoded in zero-page form; one written with
\* four hex digits is encoded in absolute form (opcode, low byte, high byte)
\* unless its first two digits are 00, and then in zero-page form with the last
\* two digits as the operand byte ("LDA $0012" gives [0xA5, 0x12]).
C10_FormByDigits ==
  [][ (MemoryStep /\ MnemonicOf(CurrentLine) \in DOMAIN ZeroPageOpcode)
        => LET digits == OperandText(CurrentLine)
           IN  CASE Len(digits) = 2 -> EncodedZeroPage
                 [] Len(digits) = 4 /\ SubSeq(digits, 1, 2) = <<"0", "0">> ->
                      /\ EncodedZeroPage
                      /\ Read(memory'.data, curr_mem_add + 1)
                           = NumeralValue(SubSeq(digits, 3, 4), 16)
                 [] OTHER -> EncodedAbsolute ]_vars

\* "LDA $0012" assembled into a fresh image at 0: [0xA5, 0x12], cursor 2.
C10_Witness ==
  /\ file = << <<"L","D","A"," ","$","0","0","1","2">> >>
  /\ line_no = 1
  /\ asm_panic = "none"
  /\ memory.data = ImageOf(<<\HA5, \H12>>, NoCells)
  /\ curr_mem_add = 2

\* The number of spaces in a line, and the text before the first of them (the
\* whole line when there is none): the mnemonic of a line of one or two tokens.
SpaceCount(line) == Cardinality({k \in 1 .. Len(line) : line[k] = " "})

MnemonicText(line) ==
  IF SpaceCount(line) = 0 THEN line
  ELSE SubSeq(line, 1, (CHOOSE k \in 1 .. Len(line) :
                          line[k] = " " /\ \A j \in 1 .. k - 1 : line[j] # " ") - 1)

\* The line is a mnemonic that is no entry of the table, alone or followed by
\* one space and an operand.
IsUnknownMnemonicLine(line) ==
  /\ line # <<>>
  /\ SpaceCount(line) <= 1
  /\ MnemonicText(line) \notin DOMAIN token_table

\* C11: assembling a line whose mnemonic is not, letter for letter and in the
\* same case, an entry of the mnemonic table (FOO, lda), with or without an
\* operand, fails with the syntax error and leaves the image, the cycle budget
\* and the cursor as the lines before it left them.
C11_UnknownMnemonic ==
  [][ (AsmStep /\ IsUnknownMnemonicLine(CurrentLine))
        => /\ asm_panic' = "Syntax error"
           /\ memory' = memory
           /\ curr_mem_add' = curr_mem_add ]_vars

\* "LDA #10" then "lda $1234" from cursor 0: the second line fails and the
\* image still holds [0x89, 0x0A], cursor 2.
C11_Witness ==
  /\ file = << <<"L","D","A"," ","#","1","0">>, <<"l","d","a"," ","$","1","2","3","4">> >>
  /\ line_no = 2
  /\ asm_panic = "Syntax error"
  /\ memory.data = ImageOf(<<\H89, \H0A>>, NoCells)
  /\ memory.data_cycle_count = U32(token_cycle_table["LDA"])
  /\ curr_mem_add = 2

\* The assembler's working state after the first n of the lines are read into
\* a fresh image from the cursor start, one parse_line per non-empty line until
\* one of them panics: a function of the lines, the start and the build.
RECURSIVE AssembleLines(_, _, _, _)
AssembleLines(lines, n, start, chk) ==
  IF n = 0 THEN Asm(MemoryNew, start, chk)
  ELSE LET m == AssembleLines(lines, n - 1, start, chk)
       IN  IF m.panic # "none" \/ lines[n] = <<>> THEN m ELSE parse_line(lines[n], m)

OpcodeBytes == {Token[t] : t \in Tokens}

\* C13: for every instruction variant of the opcode table, the byte the
\* encoder emits for it is decoded by the engine: fetching it as an opcode
\* never ends in the fault of a byte that decodes to nothing.
C13_EncodeDecode ==
  [][ (Iteration /\ Fetched \in OpcodeBytes) => run_panic' # "Command not found" ]_vars

\* C14: when the engine fetches a byte that decodes to no executable variant
\* it stops with the fault, and pc, the registers, the flags and the cycle
\* budget are those left by the last instruction that was executed: the failed
\* fetch changes none of them.
C14_IllegalOpcodeKeepsState ==
  [][ (Iteration /\ Fetched \notin LoadOpcodes)
        => /\ run_state' = "Panicked"
           /\ cpu' = cpu
           /\ memory'.data_cycle_count = memory.data_cycle_count ]_vars

\* C15: the engine is Halted exactly when the cycle budget is 0.  While the
\* budget is 0 it fetches nothing (the loop is left with the CPU, the image and
\* the budget untouched); while the budget is not 0 the loop is not left; and a
\* run that has ended without a fault holds a budget of exactly 0.
C15_HaltedIffBudgetZero ==
  [][ /\ (run_state = "Running" /\ memory.data_cycle_count = U32(0))
            => /\ run_state' = "Halted"
               /\ cpu' = cpu
               /\ memory' = memory
               /\ current_value' = current_value
      /\ (run_state = "Running" /\ memory.data_cycle_count # U32(0))
            => run_state' # "Halted"
      /\ run_state' = "Halted" => memory'.data_cycle_count = U32(0) ]_vars

\* A run that executed a zero-page load with all of its budget and was Halted.
C15_Witness ==
  /\ run_state = "Halted"
  /\ current_value = \HA5
  /\ entry.data_cycle_count = U32(3)
  /\ memory.data_cycle_count = U32(0)

\* The engine's run under its scheduling: the program is single-threaded and
\* synchronous, so execute_memory and the loop of run_memory keep being
\* executed while they can be.
SpecRunFair == SpecRun /\ WF_vars(NextRun)

U32Less(c, d) == c.hi < d.hi \/ (c.hi = d.hi /\ c.lo < d.lo)

IsOtherOperandLine(line) ==
  /\ Len(line) >= 5
  /\ SubSeq(line, 1, 3) \in DOMAIN token_table
  /\ line[4] = " "
  /\ line[5] \notin {"#", "$"}
  /\ \A k \in 5 .. Len(line) : line[k] # " "

\* C17: assembling a two-token line whose operand begins with a character
\* other than # and $ fails, the assembly is aborted, and no byte is emitted.
C17_OtherOperandFails ==
  [][ (AsmStep /\ IsOtherOperandLine(CurrentLine))
        => /\ asm_panic' # "none"
           /\ memory' = memory
           /\ curr_mem_add' = curr_mem_add ]_vars

\* The mnemonics every variant of which takes an operand: those with a memory
\* operand, but for the four that also have an accumulator variant.
OperandOnlyMnemonics == DOMAIN AbsoluteOpcode \ {"ASL", "LSR", "ROL", "ROR"}

\* The line is such a mnemonic and nothing else.
IsBareOperandMnemonic(line) ==
  line \in DOMAIN token_table /\ token_table[line] \in OperandOnlyMnemonics

\* C18: assembling a line that holds only a mnemonic without an implied or
\* accumulator variant (LDA alone) fails with the addressing error and leaves
\* the image, the cycle budget and the cursor unchanged.
C18_BareMnemonicFails ==
  [][ (AsmStep /\ IsBareOperandMnemonic(CurrentLine))
        => /\ asm_panic' = "NO TOKEN FOUND FOR RELATIVE VALUE"
           /\ memory' = memory
           /\ curr_mem_add' = curr_mem_add ]_vars

\* "LDA $1234" then "LDA" from cursor 0: the second line fails and the image
\* still holds [0xAD, 0x34, 0x12], cursor 3.
C18_Witness ==
  /\ file = << <<"L","D","A"," ","$","1","2","3","4">>, <<"L","D","A">> >>
  /\ line_no = 2
  /\ asm_panic = "NO TOKEN FOUND FOR RELATIVE VALUE"
  /\ memory.data = ImageOf(<<\HAD, \H34, \H12>>, NoCells)
  /\ memory.data_cycle_count = U32(token_cycle_table["LdaAP"])
  /\ curr_mem_add = 3

\* The line is in error: its mnemonic is unknown, or its operand begins with
\* neither # nor $, or it is alone and all its variants take an operand.
LineInError(line) ==
  \/ IsUnknownMnemonicLine(line)
  \/ IsOtherOperandLine(line)
  \/ IsBareOperandMnemonic(line)

\* C19: once a line has failed with a syntax or addressing error, no later
\* line of the source is assembled: for the rest of the assembly pass the
\* image, the cycle budget and the cursor do not change.
C19_NothingAfterFailure ==
  [][ (/\ run_state = "Idle"
       /\ run_state' = "Idle"
       /\ \E k \in 1 .. line_no : LineInError(file[k]))
        => /\ memory' = memory
           /\ curr_mem_add' = curr_mem_add ]_vars

\* The addresses at which two images differ.
ChangedAddresses(data, other) ==
  {a \in DOMAIN data \cup DOMAIN other : Read(data, a) # Read(other, a)}

\* C20: the write cursor and the engine's pc never wrap around to 0: neither
\* ever decreases, an instruction that would take the cursor past 0xFFFF makes
\* the assembly fail, and no byte is written at a wrapped address (below the
\* cursor the line started from).
C20_NoWrapAround ==
  [][ /\ curr_mem_add' >= curr_mem_add
      /\ cpu'.pc >= cpu.pc
      /\ AsmStep => \A a \in ChangedAddresses(memory.data, memory'.data) :
                      a >= curr_mem_add ]_vars

\* The number of bytes a line emits when it is assembled without a failure: one
\* for a mnemonic alone, two with an immediate or a zero-page operand, three
\* with an absolute operand, none for a line that is passed over.
EmittedLength(line) ==
  CASE line \in DOMAIN token_table -> 1
    [] IsOperandLine(line, "#") -> 2
    [] IsOperandLine(line, "$") ->
         IF /\ MnemonicOf(line) \notin {"JMP", "JSR"}
            /\ IsNumeral(OperandText(line), 16)
            /\ NumeralValue(OperandText(line), 16) < 256
         THEN 2 ELSE 3
    [] OTHER -> 0

\* The bytes emitted by the first n of the lines.
RECURSIVE EmittedBefore(_, _)
EmittedBefore(lines, n) ==
  IF n = 0 THEN 0 ELSE EmittedBefore(lines, n - 1) + EmittedLength(lines[n])

\* The opcode bytes of the variants of a mnemonic.
OpcodesOf(mnemonic) ==
  {Token[mnemonic]}
    \cup (IF mnemonic \in DOMAIN ZeroPageOpcode THEN {ZeroPageOpcode[mnemonic]} ELSE {})
    \cup (IF mnemonic \in DOMAIN AbsoluteOpcode THEN {AbsoluteOpcode[mnemonic]} ELSE {})

\* C21: after any sequence of successfully assembled lines that fits below the
\* end of the address space, the cursor is the starting cursor plus the sum of
\* the emitted lengths (1, 2 or 3) of the lines, the opcode of each instruction
\* sits at the cursor the line before it left, every emitted byte lies between
\* the starting cursor and the cursor, and a line writes only at and above the
\* cursor it starts from, so on no byte emitted by an earlier line.
C21_CursorIsSumOfLengths ==
  [][ /\ (/\ run_state = "Idle"
          /\ asm_panic = "none"
          /\ curr_mem_add >= EmittedBefore(file, line_no))
            => LET start == curr_mem_add - EmittedBefore(file, line_no)
               IN  /\ start \in StartAddresses
                   /\ DOMAIN memory.data \subseteq start .. curr_mem_add - 1
                   /\ \A k \in 1 .. line_no :
                        EmittedLength(file[k]) > 0
                          => Read(memory.data, start + EmittedBefore(file, k - 1))
                               \in OpcodesOf(token_table[SubSeq(file[k], 1, 3)])
      /\ (/\ AsmStep
          /\ asm_panic' = "none"
          /\ curr_mem_add + EmittedLength(CurrentLine) <= U16_MAX)
            => /\ curr_mem_add' = curr_mem_add + EmittedLength(CurrentLine)
               /\ ChangedAddresses(memory.data, memory'.data)
                    \subseteq curr_mem_add .. curr_mem_add' - 1 ]_vars

\* "NOP" and "LDA $1234" assembled from cursor 0: [0xEA, 0xAD, 0x34, 0x12],
\* cursor 4.
C21_Witness ==
  /\ file = << <<"N","O","P">>, <<"L","D","A"," ","$","1","2","3","4">> >>
  /\ line_no = 2
  /\ run_state = "Idle"
  /\ asm_panic = "none"
  /\ Read(memory.data, 0) = Token["NOP"]
  /\ Read(memory.data, 1) = \HAD
  /\ Read(memory.data, 2) = \H34
  /\ Read(memory.data, 3) = \H12
  /\ curr_mem_add = 4

\* The cycle cost of the instruction variant a line emits when it is assembled
\* without a failure; 0 for a line that is passed over.
EmittedCost(line) ==
  CASE line \in DOMAIN token_table -> token_cycle_table[token_table[line]]
    [] IsOperandLine(line, "#") -> token_cycle_table[MnemonicOf(line)]
    [] IsOperandLine(line, "$") ->
         token_cycle_table[VariantOf(IF EmittedLength(line) = 2
                                     THEN ZeroPageOpcode[MnemonicOf(line)]
                                     ELSE AbsoluteOpcode[MnemonicOf(line)])]
    [] OTHER -> 0

\* The costs of the instructions emitted by the first n of the lines.
RECURSIVE CostBefore(_, _)
CostBefore(lines, n) ==
  IF n = 0 THEN 0 ELSE CostBefore(lines, n - 1) + EmittedCost(lines[n])

\* C22: after any sequence of lines is assembled into a fresh image, the cycle
\* budget is the sum of the costs of the instructions that were emitted: one
\* cost for each line that was assembled, nothing for a line that emitted no
\* instruction (a line passed over, or the line on which the assembly failed).
C22_BudgetIsSumOfCosts ==
  run_state = "Idle"
    => memory.data_cycle_count
         = U32(CostBefore(file, IF asm_panic = "none" THEN line_no ELSE line_no - 1))

\* C23: a freshly created CPU (before any line is assembled) has 65536 bytes
\* of memory, none of which holds anything but 0, a cycle budget of 0, pc 0 and
\* sp 0, and all registers and all seven flags 0.
C23_FreshCpuIsZero ==
  (run_state = "Idle" /\ line_no = 0)
    => /\ memory.max_memory = 65536
       /\ {a \in DOMAIN memory.data : Read(memory.data, a) # 0} = {}
       /\ \A a \in {0, 1, \H10, \H1234, curr_mem_add, U16_MAX} : Read(memory.data, a) = 0
       /\ memory.data_cycle_count = U32(0)
       /\ \A f \in DOMAIN cpu : cpu[f] = 0
       /\ DOMAIN cpu = {"pc", "sp", "a", "x", "y", "c", "z", "i", "d", "b", "v", "n"}

\* The CPU just created, with a file of two lines still to be read.
C23_Witness ==
  /\ run_state = "Idle"
  /\ line_no = 0
  /\ Len(file) = 2
  /\ cpu.pc = 0
  /\ memory.data_cycle_count = U32(0)
  /\ memory.data = NoCells

\* The line is "M #$hh": M has an immediate variant, hh is two hex digits.
IsImmediateHexLine(line) ==
  /\ IsOperandLine(line, "#")
  /\ MnemonicOf(line) \in DOMAIN ImmediateOpcode
  /\ Len(OperandText(line)) = 3
  /\ Head(OperandText(line)) = "$"
  /\ IsNumeral(Tail(OperandText(line)), 16)

C25_ZeroPageLoad ==
  [][ (/\ Iteration
       /\ Fetched \in ZeroPageLoads
       /\ cpu.pc + 1 <= U16_MAX
       /\ U32AtLeast(memory.data_cycle_count, 3) \/ ~overflow_checks)
        => LET addr == Read(memory.data, cpu.pc + 1)
           IN  /\ addr \in 0 .. U8_MAX
               /\ Destination(Fetched, cpu') = Read(memory.data, addr)
               /\ memory'.data = memory.data ]_vars

\* [0xA5, 0x10] executed with memory[0x10] = 0x80: a = 0x80.
C25_Witness ==
  /\ current_value = \HA5
  /\ run_panic = "none"
  /\ Read(memory.data, 1) = \H10
  /\ Read(memory.data, \H10) = \H80
  /\ cpu.a = \H80
  /\ cpu.pc = 3

\* C26: an immediate operand is accepted only for a mnemonic that has an
\* immediate variant; for every other mnemonic of the table (STA #10, ROL #10)
\* the line fails with the addressing error and no byte is emitted.
C26_ImmediateOnlyWithVariant ==
  [][ (/\ AsmStep
       /\ IsOperandLine(CurrentLine, "#")
       /\ MnemonicOf(CurrentLine) \notin DOMAIN ImmediateOpcode)
        => /\ asm_panic' # "none"
           /\ memory'.data = memory.data
           /\ curr_mem_add' = curr_mem_add ]_vars

\* C27: every non-empty line either emits one instruction (the cursor and the
\* budget advance) or makes the assembly fail; no non-empty line, whatever the
\* number of its tokens, is passed over with cursor and budget as they were.
C27_NoLineSkipped ==
  [][ (AsmStep /\ CurrentLine # <<>>)
        => \/ asm_panic' # "none"
           \/ /\ curr_mem_add' # curr_mem_add
              /\ memory'.data_cycle_count # memory.data_cycle_count ]_vars

\* The mnemonics with a variant that takes no operand: all but those whose
\* variants all take one.
NoOperandMnemonics ==
  {token_table[text] : text \in DOMAIN token_table} \ OperandOnlyMnemonics

\* C28: assembling a line that holds only a mnemonic with an implied or
\* accumulator variant, at a cursor with room for it, writes one byte and no
\* more, that variant's opcode, at the cursor, advances the cursor by 1 and
\* adds the variant's cost to the budget.
C28_ImpliedLine ==
  [][ (/\ AsmStep
       /\ CurrentLine \in DOMAIN token_table
       /\ token_table[CurrentLine] \in NoOperandMnemonics
       /\ curr_mem_add + 1 <= U16_MAX)
        => /\ asm_panic' = "none"
           /\ Read(memory'.data, curr_mem_add) = Token[token_table[CurrentLine]]
           /\ ChangedAddresses(memory.data, memory'.data) \subseteq {curr_mem_add}
           /\ curr_mem_add' = curr_mem_add + 1
           /\ memory'.data_cycle_count
                = U32WrappingAdd(memory.data_cycle_count,
                                 token_cycle_table[token_table[CurrentLine]]) ]_vars

\* C29: assembly never changes the CPU: while lines are being assembled, whether
\* the line succeeds or fails, pc, sp, the registers A, X, Y and the seven flags
\* stay as they are, and they are as CPU::new left them, all zero, at every
\* point of the assembly.
C29_AssemblyKeepsCpu ==
  /\ [](run_state = "Idle"
         => \A f \in {"pc", "sp", "a", "x", "y", "c", "z", "i", "d", "b", "v", "n"} :
              cpu[f] = 0)
  /\ [][ (run_state = "Idle" /\ run_state' = "Idle") => cpu' = cpu ]_vars

\* Two lines have been read near the top of the address space, the first one
\* assembled and the second one failing, and the CPU is as it was created.
C29_Witness ==
  /\ run_state = "Idle"
  /\ file = << <<"L","D","A"," ","#","1","0">>, <<"L","D","A">> >>
  /\ line_no = 2
  /\ asm_panic # "none"
  /\ curr_mem_add = \HFFFF
  /\ Read(memory.data, \HFFFD) = \H89
  /\ cpu.pc = 0 /\ cpu.sp = 0 /\ cpu.a = 0 /\ cpu.n = 0

\* The number of bytes the encoder emits for the load an opcode byte encodes.
EncodedLength(opcode) == IF opcode \in AbsoluteLoads THEN 3 ELSE 2

\* C30: an iteration that executes a load to its end, with budget enough for
\* any load, leaves pc advanced by just the encoded length of the instruction,
\* 2 for an immediate or zero-page load and 3 for an absolute one, so that the
\* next fetch reads the byte that follows the instruction.
C30_PcAdvancesByLength ==
  [][ (/\ Iteration
       /\ Fetched \in LoadOpcodes
       /\ U32AtLeast(memory.data_cycle_count, 5)
       /\ run_panic' = "none")
        => cpu'.pc = cpu.pc + EncodedLength(Fetched) ]_vars

\* C31: the cycle budget never underflows during execution: no step of the
\* engine, whatever the image and the budget it starts from, decrements a
\* budget that is already 0, neither wrapping it round (the step would leave
\* more budget than it found) nor failing on the subtraction.
C31_BudgetNeverUnderflows ==
  [][ run_state = "Running"
        => /\ ~U32Less(memory.data_cycle_count, memory'.data_cycle_count)
           /\ run_panic' # "attempt to subtract with overflow" ]_vars

\* C32: encoding a line is atomic: when assembling a line fails, for whatever
\* reason, the memory image, the cycle budget and the cursor are what they
\* were before the line.
C32_FailingLineIsAtomic ==
  [][ (AsmStep /\ asm_panic' # "none")
        => /\ memory' = memory
           /\ curr_mem_add' = curr_mem_add ]_vars

\* The lines that hold a mnemonic in one of the operand shapes: alone, or
\* followed by an operand that begins with # or with $.
ShapesOf(text) ==
  {text} \cup {text \o <<" ">> \o op : op \in BasicOperands}

\* C33: every mnemonic of the table can be assembled in at least one operand
\* shape: at the start of an assembly, with room for an instruction at the
\* cursor, for each of the 56 mnemonics some line made of it alone or with a
\* # or $ operand does not fail and puts one of its opcodes at the cursor.
C33_EveryMnemonicAssembles ==
  (run_state = "Idle" /\ line_no = 0 /\ curr_mem_add + 3 <= U16_MAX)
    => \A text \in DOMAIN token_table :
         \E line \in ShapesOf(text) :
           LET m == parse_line(line, Asm(memory, curr_mem_add, overflow_checks))
           IN  /\ m.panic = "none"
               /\ m.curr_mem_add > curr_mem_add
               /\ Read(m.memory.data, curr_mem_add) \in OpcodesOf(token_table[text])

\* The CPU field an opcode's load writes.
DestinationField(opcode) ==
  CASE opcode = \HA2 -> "x"
    [] opcode = \HA0 -> "y"
    [] OTHER -> "a"

\* C34: a step of the engine changes, of the CPU and its memory, only the
\* destination register of the load it executes, the zero and negative flags,
\* pc and the cycle budget: the memory image, the other registers (all three
\* when the step executes no load), sp and the flags carry, interrupt-disable,
\* decimal, break and overflow are as before.
C34_LoadFrame ==
  [][ run_state = "Running"
        => /\ memory'.data = memory.data
           /\ memory'.max_memory = memory.max_memory
           /\ \A r \in {"a", "x", "y"} :
                (cpu'[r] # cpu[r])
                  => (Iteration /\ Fetched \in LoadOpcodes /\ r = DestinationField(Fetched))
           /\ \A f \in {"sp", "c", "i", "d", "b", "v"} : cpu'[f] = cpu[f] ]_vars

\* LDA #$80 then LDX #$80 have run: the second load wrote X and left the
\* accumulator, Y, sp and the other flags as the first load left them.
C34_Witness ==
  /\ run_state = "Running"
  /\ run_panic = "none"
  /\ current_value = \HA2
  /\ cpu.pc = 4
  /\ cpu.a = \H80
  /\ cpu.x = \H80
  /\ cpu.y = 0
  /\ cpu.sp = 0
  /\ cpu.c = 0

\* A line that loads a register: LDA, LDX or LDY with an immediate operand or
\* an address.
IsLoadLine(line) ==
  /\ IsOperandLine(line, "#") \/ IsOperandLine(line, "$")
  /\ MnemonicOf(line) \in {"LDA", "LDX", "LDY"}

\* The value a load line puts in its register, with the image data: the
\* operand of an immediate load, the byte at the address of the others.
LoadedValue(line, data) ==
  LET text == OperandText(line)
  IN  IF IsOperandLine(line, "#")
      THEN IF Head(text) = "$" THEN NumeralValue(Tail(text), 16)
           ELSE NumeralValue(text, 10)
      ELSE Read(data, NumeralValue(text, 16))

\* The value of a register after the loads of the lines, in source order: that
\* of the last line that addresses it, 0 (the value of CPU::new) without one.
LastLoaded(lines, mnemonic, data) ==
  LET at == {k \in 1 .. Len(lines) : MnemonicOf(lines[k]) = mnemonic}
  IN  IF at = {} THEN 0
      ELSE LoadedValue(lines[CHOOSE k \in at : \A j \in at : j <= k], data)

\* C35: a program made only of LDA, LDX and LDY lines in immediate, zero-page
\* or absolute form, assembled without failure from cursor 0 and run from pc 0,
\* ends without the engine having met an opcode it does not decode, and with
\* each register holding the value of the last load addressed to it.
C35_LoadProgramRuns ==
  (/\ run_state \in {"Halted", "Panicked"}
   /\ file # <<>>
   /\ \A k \in 1 .. Len(file) : IsLoadLine(file[k])
   /\ asm_panic = "none"
   /\ curr_mem_add = EmittedBefore(file, Len(file)))
    => /\ run_panic # "Command not found"
       /\ cpu.a = LastLoaded(file, "LDA", memory.data)
       /\ cpu.x = LastLoaded(file, "LDX", memory.data)
       /\ cpu.y = LastLoaded(file, "LDY", memory.data)

\* The opcode values of the table.
OpcodeValues == {Token[t] : t \in Tokens}

\* The variants whose opcode is a byte.
VariantsAt(byte) == {t \in Tokens : Token[t] = byte}

\* C36: no two instruction variants share an opcode byte: the table has as
\* many opcode values as variants, and every byte of the image, those the
\* assembler emitted included, is the opcode of one variant at most.
C36_OpcodesUnique ==
  /\ Cardinality(OpcodeValues) = Cardinality(Tokens)
  /\ \A s \in {"LDA", "LdaZP", "LdaAP", "JMP", "JmpID", "PHP", "BRK"} :
       VariantsAt(Token[s]) = {s}
  /\ \A a \in DOMAIN memory.data : Cardinality(VariantsAt(memory.data[a])) <= 1

\* "LDA $1234" has been assembled at 0: the opcode emitted there is that of the
\* absolute variant of LDA and of no other variant.
C36_Witness ==
  /\ run_state = "Idle"
  /\ line_no = 1
  /\ file = << <<"L","D","A"," ","$","1","2","3","4">> >>
  /\ Read(memory.data, 0) = \HAD
  /\ VariantsAt(Read(memory.data, 0)) = {"LdaAP"}

=============================================================================
